---- MODULE Spec2Model ----
(***************************************************************************)
(* ADPRouter (src/adp_routing_logic.py): registry, domain pools,          *)
(* round-robin cursors, lazy health refresh, weighted / round-robin       *)
(* selection, validation-set selection and load accounting.               *)
(*                                                                         *)
(* Floats are modelled as scaled integers: weight and accuracy_score in    *)
(* tenths, the time factor in tenths, the load factor in units of          *)
(* 1/(10*CapLcm), the degraded penalty in halves.  time.time() is the      *)
(* variable now.  The random sources (random.random, random.uniform,       *)
(* random.choice) are nondeterministic choices over every value they can   *)
(* return.                                                                 *)
(***************************************************************************)
EXTENDS Integers, Sequences, FiniteSets, TLC

VARIABLES
    nm_registry,          \* self.nm_registry: id -> NarrowModel
    domain_pools,         \* self.domain_pools: domain -> list of ids
    round_robin_indices,  \* self.round_robin_indices: domain -> int
    now,                  \* time.time()
    result,               \* the last call made on the router and what it returned
    owed,                 \* caller bookkeeping: complete_request calls still owed per id
    rr_log,               \* caller bookkeeping: decisions of the round-robin scenario
    th                    \* threads inside route_request (concurrent specification)

vars == <<nm_registry, domain_pools, round_robin_indices, now, result, owed, rr_log, th>>

---------------------------------------------------------------------------
(* Enumerations and constants of the program *)

HEALTHY == "healthy"
DEGRADED == "degraded"
UNAVAILABLE == "unavailable"
NMStatus == {HEALTHY, DEGRADED, UNAVAILABLE}

MEDICAL == "medical"
CARDIOLOGY == "cardiology"
Domain == {MEDICAL, CARDIOLOGY}

None == "None"

HealthCheckInterval == 30
MaxValidators == 2

---------------------------------------------------------------------------
(* Bounds of the model *)

MaxLoad == 2        \* route is not called once a load has reached this
MaxTime == 62       \* the clock is not advanced past this
MaxOwed == 2        \* routed requests in flight per worker (bookkeeping spec)
MaxCalls == 4       \* length of the round-robin scenario

IDs == {"a", "b", "c", "d", "e"}
UnknownId == "zz"

Min(x, y) == IF x <= y THEN x ELSE y
Max(x, y) == IF x >= y THEN x ELSE y

\* NarrowModel(id, domain, endpoint, capabilities, weight, status, response_time_avg,
\* accuracy_score, last_health_check, current_load, max_concurrent); endpoint and
\* capabilities are never read by the router.
NarrowModel(id, domain, weight, rt, acc, lhc, load, maxc) ==
    [id |-> id, domain |-> domain, weight |-> weight, status |-> HEALTHY,
     response_time_avg |-> rt, accuracy_score |-> acc, last_health_check |-> lhc,
     current_load |-> load, max_concurrent |-> maxc]

\* The records register_nm is called with: "b" has effective weight 0, and can be
\* registered again under another domain, with a load.
Catalog ==
    { NarrowModel("a", MEDICAL,    7,  600, 9, 0, 0, 1),
      NarrowModel("b", MEDICAL,   10, 2000, 0, 0, 0, 2),
      NarrowModel("b", CARDIOLOGY, 8,  800, 9, 0, 1, 2) }

\* The workers of the validation scenario, in registration order
SetupVal ==
    << NarrowModel("a", MEDICAL,  7,  600, 0, 0, 0, 1),
       NarrowModel("b", MEDICAL, 10, 2000, 9, 0, 0, 2),
       NarrowModel("c", MEDICAL,  5,    0, 0, 0, 0, 2),
       NarrowModel("d", MEDICAL,  8,  800, 9, 0, 0, 2) >>

\* The workers of the round-robin and concurrency scenarios, in registration order
SetupRR ==
    << NarrowModel("a", MEDICAL,    7,  600, 9, 0, 0, 1),
       NarrowModel("b", MEDICAL,   10, 2000, 9, 0, 0, 2),
       NarrowModel("c", MEDICAL,    5,    0, 0, 0, 0, 2),
       NarrowModel("e", CARDIOLOGY, 8,  800, 9, 0, 0, 2) >>

CatalogIds == {nm.id : nm \in Catalog}

StartTime == HealthCheckInterval + 1

---------------------------------------------------------------------------
(* Sequence helpers (Python list operations) *)

Range(s) == {s[i] : i \in 1..Len(s)}

\* list.remove(x): drops the first occurrence
RECURSIVE Remove(_, _)
Remove(s, x) ==
    IF s = <<>> THEN <<>>
    ELSE IF Head(s) = x THEN Tail(s)
    ELSE <<Head(s)>> \o Remove(Tail(s), x)

\* [y for y in s if y not in exclude]
Without(s, exclude) == SelectSeq(s, LAMBDA y : y \notin exclude)

---------------------------------------------------------------------------
(* register_nm *)

\* faulty variant, for sensitivity of the properties: the id is appended without the membership test
register_pools_appends(pools, nm) ==
    IF nm.domain \notin DOMAIN pools
    THEN [d \in (DOMAIN pools) \cup {nm.domain} |->
            IF d = nm.domain THEN <<nm.id>> ELSE pools[d]]
    ELSE [pools EXCEPT ![nm.domain] = Append(@, nm.id)]

\* faulty variant, for sensitivity of the properties: an id that is already in some pool is not appended
register_pools_once(pools, nm) ==
    LET p0 == IF nm.domain \notin DOMAIN pools
              THEN [d \in (DOMAIN pools) \cup {nm.domain} |->
                        IF d = nm.domain THEN <<>> ELSE pools[d]]
              ELSE pools
    IN  IF \A d \in DOMAIN pools : nm.id \notin Range(pools[d])
        THEN [p0 EXCEPT ![nm.domain] = Append(@, nm.id)]
        ELSE p0

register_pools(pools, nm) ==
    LET p0 == IF nm.domain \notin DOMAIN pools
              THEN [d \in (DOMAIN pools) \cup {nm.domain} |->
                        IF d = nm.domain THEN <<>> ELSE pools[d]]
              ELSE pools
    IN  IF nm.id \notin Range(p0[nm.domain])
        THEN [p0 EXCEPT ![nm.domain] = Append(@, nm.id)]
        ELSE p0

register_indices(pools, rr, nm) ==
    IF nm.domain \notin DOMAIN pools
    THEN [d \in (DOMAIN rr) \cup {nm.domain} |-> IF d = nm.domain THEN 0 ELSE rr[d]]
    ELSE rr

register_registry(reg, nm) ==
    [i \in (DOMAIN reg) \cup {nm.id} |-> IF i = nm.id THEN nm ELSE reg[i]]

---------------------------------------------------------------------------
(* perform_health_check, get_healthy_nms_in_domain *)

\* faulty variant, for sensitivity of the properties: a reachable worker is Healthy whatever its load
HealthStatus_ignores_load(nm, is_healthy) ==
    IF is_healthy THEN HEALTHY ELSE UNAVAILABLE

HealthStatus(nm, is_healthy) ==
    IF is_healthy /\ nm.current_load < nm.max_concurrent THEN HEALTHY
    ELSE IF is_healthy /\ nm.current_load >= nm.max_concurrent THEN DEGRADED
    ELSE UNAVAILABLE

\* faulty variant, for sensitivity of the properties: last_health_check is not updated
perform_health_check_keeps_time(reg, nm_id, t, is_healthy) ==
    IF nm_id \notin DOMAIN reg THEN reg
    ELSE [reg EXCEPT ![nm_id] =
            [@ EXCEPT !.status = HealthStatus(reg[nm_id], is_healthy)]]

\* is_healthy is the outcome of random.random() > 0.05
perform_health_check(reg, nm_id, t, is_healthy) ==
    IF nm_id \notin DOMAIN reg THEN reg
    ELSE [reg EXCEPT ![nm_id] =
            [@ EXCEPT !.status = HealthStatus(reg[nm_id], is_healthy),
                      !.last_health_check = t]]

\* faulty variant, for sensitivity of the properties: an Unavailable worker is never recomputed
NeedsCheck_skips_unavailable(nm, t) ==
    nm.status # UNAVAILABLE /\ t - nm.last_health_check > HealthCheckInterval

\* faulty variant, for sensitivity of the properties: recomputed already at the interval itself
NeedsCheck_at_interval(nm, t) == t - nm.last_health_check >= HealthCheckInterval

NeedsCheck(nm, t) == t - nm.last_health_check > HealthCheckInterval

\* faulty variant, for sensitivity of the properties: Unavailable workers pass the eligibility test
IsEligible_any(nm) == nm.status \in NMStatus

IsEligible(nm) == nm.status \in {HEALTHY, DEGRADED}

\* the loop of get_healthy_nms_in_domain; up holds the ids whose probe succeeds
RECURSIVE healthy_loop(_, _, _, _, _)
healthy_loop(reg, ids, t, up, healthy_nms) ==
    IF ids = <<>> THEN [reg |-> reg, nms |-> healthy_nms]
    ELSE LET nm_id == Head(ids) IN
         IF nm_id \in DOMAIN reg
         THEN LET reg1 == IF NeedsCheck(reg[nm_id], t)
                          THEN perform_health_check(reg, nm_id, t, nm_id \in up)
                          ELSE reg
                  nms1 == IF IsEligible(reg1[nm_id])
                          THEN Append(healthy_nms, nm_id)
                          ELSE healthy_nms
              IN  healthy_loop(reg1, Tail(ids), t, up, nms1)
         ELSE healthy_loop(reg, Tail(ids), t, up, healthy_nms)

get_healthy_nms_in_domain(reg, pools, domain, t, up) ==
    IF domain \notin DOMAIN pools THEN [reg |-> reg, nms |-> <<>>]
    ELSE healthy_loop(reg, pools[domain], t, up, <<>>)

\* the workers a get_healthy_nms_in_domain call at time t probes
Probed(reg, pools, domain, t) ==
    IF domain \notin DOMAIN pools THEN {}
    ELSE {i \in Range(pools[domain]) : i \in DOMAIN reg /\ NeedsCheck(reg[i], t)}

---------------------------------------------------------------------------
(* calculate_weighted_selection *)

\* least common multiple of the capacities in use: the load factor's denominator
CapLcm ==
    LET caps == {nm.max_concurrent : nm \in Catalog} \cup
                {SetupVal[i].max_concurrent : i \in 1..Len(SetupVal)} \cup
                {SetupRR[i].max_concurrent : i \in 1..Len(SetupRR)}
        top  == 1 + Cardinality(caps)
    IN  CHOOSE m \in 1..(top * top) :
            /\ \A c \in caps : m % c = 0
            /\ \A k \in 1..(m - 1) : \E c \in caps : k % c # 0

\* min(1.0, 1000.0 / response_time_avg) in tenths; the factor is skipped at 0
TimeFactor(nm) ==
    IF nm.response_time_avg > 0 THEN Min(10, 10000 \div nm.response_time_avg) ELSE 10

\* max(0.1, 1.0 - current_load / max_concurrent) in units of 1/(10*CapLcm)
LoadFactor(nm) ==
    Max(CapLcm, (10 * (nm.max_concurrent - nm.current_load) * CapLcm) \div nm.max_concurrent)

\* 0.5 if DEGRADED, in halves
DegradedFactor(nm) == IF nm.status = DEGRADED THEN 1 ELSE 2

EffectiveWeight(nm) ==
    nm.weight * TimeFactor(nm) * nm.accuracy_score * LoadFactor(nm) * DegradedFactor(nm)

\* cumulative after the first i candidates
RECURSIVE Cumulative(_, _, _)
Cumulative(reg, nm_ids, i) ==
    IF i = 0 THEN 0 ELSE Cumulative(reg, nm_ids, i - 1) + EffectiveWeight(reg[nm_ids[i]])

TotalWeight(reg, nm_ids) == Cumulative(reg, nm_ids, Len(nm_ids))

\* random.uniform(0, total_weight) is any real of [0, total_weight]; the walk below
\* only compares it with the cumulative sums, so one draw per interval between
\* consecutive sums, and the draw 0, stand for all of them.
Draws(reg, nm_ids) == {0} \cup {Cumulative(reg, nm_ids, i) : i \in 1..Len(nm_ids)}

\* the walk: the first candidate with random_value <= cumulative, else the last
Walk(reg, nm_ids, random_value) ==
    LET hits == {i \in 1..Len(nm_ids) : random_value <= Cumulative(reg, nm_ids, i)}
    IN  IF hits # {}
        THEN nm_ids[CHOOSE i \in hits : \A j \in hits : i <= j]
        ELSE nm_ids[Len(nm_ids)]

\* faulty variant, for sensitivity of the properties: no fallback when the total weight is 0
calculate_weighted_selection_no_fallback(reg, nm_ids) ==
    IF nm_ids = <<>> THEN {None}
    ELSE IF TotalWeight(reg, nm_ids) = 0 THEN {None}
    ELSE {Walk(reg, nm_ids, r) : r \in Draws(reg, nm_ids)}

\* every value calculate_weighted_selection(nm_ids) can return
calculate_weighted_selection(reg, nm_ids) ==
    IF nm_ids = <<>> THEN {None}
    ELSE IF TotalWeight(reg, nm_ids) = 0 THEN Range(nm_ids)
    ELSE {Walk(reg, nm_ids, r) : r \in Draws(reg, nm_ids)}

---------------------------------------------------------------------------
(* round_robin_selection *)

\* faulty variant, for sensitivity of the properties: the cursor is ignored
RRIndex_zero(rr, nm_ids, domain) == 0

\* faulty variant, for sensitivity of the properties: an out-of-range cursor goes to the last position
RRIndex_last(rr, nm_ids, domain) ==
    LET current_index == IF domain \in DOMAIN rr THEN rr[domain] ELSE 0
    IN  IF current_index >= Len(nm_ids) THEN Len(nm_ids) - 1 ELSE current_index

RRIndex(rr, nm_ids, domain) ==
    LET current_index == IF domain \in DOMAIN rr THEN rr[domain] ELSE 0
    IN  IF current_index >= Len(nm_ids) THEN 0 ELSE current_index

\* faulty variant, for sensitivity of the properties: the first candidate, whatever the cursor
round_robin_selected_first(rr, nm_ids, domain) ==
    IF nm_ids = <<>> THEN None ELSE nm_ids[1]

round_robin_selected(rr, nm_ids, domain) ==
    IF nm_ids = <<>> THEN None ELSE nm_ids[RRIndex(rr, nm_ids, domain) + 1]

\* faulty variant, for sensitivity of the properties: one cursor shared by all domains
round_robin_indices_after_global(rr, nm_ids, domain) ==
    IF nm_ids = <<>> THEN rr
    ELSE [d \in (DOMAIN rr) \cup {domain} |->
            (RRIndex(rr, nm_ids, domain) + 1) % Len(nm_ids)]

\* faulty variant, for sensitivity of the properties: the cursor is not advanced
round_robin_indices_after_stuck(rr, nm_ids, domain) == rr

\* faulty variant, for sensitivity of the properties: the cursor is advanced without the modulo
round_robin_indices_after_no_wrap(rr, nm_ids, domain) ==
    IF nm_ids = <<>> THEN rr
    ELSE [d \in (DOMAIN rr) \cup {domain} |->
            IF d = domain THEN RRIndex(rr, nm_ids, domain) + 1 ELSE rr[d]]

round_robin_indices_after(rr, nm_ids, domain) ==
    IF nm_ids = <<>> THEN rr
    ELSE [d \in (DOMAIN rr) \cup {domain} |->
            IF d = domain THEN (RRIndex(rr, nm_ids, domain) + 1) % Len(nm_ids) ELSE rr[d]]

---------------------------------------------------------------------------
(* route_request, _select_validation_nms, complete_request *)

Priorities == {"normal", "high", "urgent", "low"}

\* RoutingRequest(message_id, domain, priority, preferred_nm_id, require_validation);
\* message_id is never read by the router.
RoutingRequest ==
    [domain : Domain, priority : Priorities,
     preferred_nm_id : {None, "a", "b", UnknownId}, require_validation : BOOLEAN]

\* the returned dict; an absent "error" is None, an absent "total_available" is <<>>
Decision(primary, validation, method, error, total) ==
    [primary |-> primary, validation |-> validation, routing_method |-> method,
     error |-> error, total_available |-> total]

NoHealthyError == "No healthy NMs available in domain"

\* candidates = [nm_id for nm_id in available_nms if nm_id not in exclude]
validation_candidates(available_nms, exclude) == Without(available_nms, exclude)

\* faulty variant, for sensitivity of the properties: the loop only stops when the candidates are exhausted
validation_continues_unbounded(validators, candidates) == candidates # <<>>

\* while len(validators) < min(max_validators, len(candidates))
validation_continues(validators, candidates) ==
    Len(validators) < Min(MaxValidators, Len(candidates))

\* the while loop of _select_validation_nms: every list it can end with
RECURSIVE validator_loop(_, _, _)
validator_loop(reg, validators, candidates) ==
    IF validation_continues(validators, candidates)
    THEN UNION { IF validator # None /\ validator \notin Range(validators)
                 THEN validator_loop(reg, Append(validators, validator),
                                     Remove(candidates, validator))
                 ELSE {validators}
                 : validator \in calculate_weighted_selection(reg, candidates) }
    ELSE {validators}

\* every (registry, validators) a call can leave
select_validation_nms(reg, pools, request, exclude, t) ==
    UNION { LET h == get_healthy_nms_in_domain(reg, pools, request.domain, t, up)
                candidates == validation_candidates(h.nms, exclude)
            IN  IF candidates = <<>>
                THEN {[reg |-> h.reg, validators |-> <<>>]}
                ELSE {[reg |-> h.reg, validators |-> vs] :
                        vs \in validator_loop(h.reg, <<>>, candidates)}
            : up \in SUBSET Probed(reg, pools, request.domain, t) }

add_load(reg, nm_id) ==
    IF nm_id \in DOMAIN reg
    THEN [reg EXCEPT ![nm_id] = [@ EXCEPT !.current_load = @ + 1]]
    ELSE reg

RECURSIVE add_loads(_, _)
add_loads(reg, nm_ids) ==
    IF nm_ids = <<>> THEN reg ELSE add_loads(add_load(reg, Head(nm_ids)), Tail(nm_ids))

\* "Update load tracking": the primary, then each validation NM
update_load_tracking(reg, primary_nm, validation_nms) ==
    add_loads(IF primary_nm # None THEN add_load(reg, primary_nm) ELSE reg, validation_nms)

\* faulty variant, for sensitivity of the properties: the preferred-NM shortcut is skipped for urgent requests
PreferredUsable_not_urgent(reg, request) ==
    /\ request.priority # "urgent"
    /\ request.preferred_nm_id # None
    /\ request.preferred_nm_id \in DOMAIN reg
    /\ reg[request.preferred_nm_id].status \in {HEALTHY, DEGRADED}

PreferredUsable(reg, request) ==
    /\ request.preferred_nm_id # None
    /\ request.preferred_nm_id \in DOMAIN reg
    /\ IsEligible(reg[request.preferred_nm_id])

\* the preferred-NM branch: returns before the load tracking
route_preferred(reg, pools, rr, request, t) ==
    IF request.require_validation
    THEN { [reg |-> v.reg, rr |-> rr,
            decision |-> Decision(request.preferred_nm_id, v.validators,
                                  "preferred_with_validation", None, <<>>)] :
           v \in select_validation_nms(reg, pools, request, {request.preferred_nm_id}, t) }
    ELSE { [reg |-> reg, rr |-> rr,
            decision |-> Decision(request.preferred_nm_id, <<>>, "preferred_only",
                                  None, <<>>)] }

\* faulty variant, for sensitivity of the properties: normal and high are routed round-robin, every other priority is weighted
select_primary_else_weighted(reg, rr, request, available_nms) ==
    IF request.priority \in {"normal", "high"}
    THEN { [primary |-> round_robin_selected(rr, available_nms, request.domain),
            rr |-> round_robin_indices_after(rr, available_nms, request.domain),
            method |-> "round_robin_normal", top_candidates |-> <<>>] }
    ELSE { [primary |-> p, rr |-> rr, method |-> "weighted_urgent",
            top_candidates |-> <<>>] :
           p \in calculate_weighted_selection(reg, available_nms) }

\* "Select primary NM based on priority": every (primary, cursor, method) and,
\* on the high branch, the top_candidates list the primary was drawn from
select_primary(reg, rr, request, available_nms) ==
    IF request.priority = "urgent"
    THEN { [primary |-> p, rr |-> rr, method |-> "weighted_urgent",
            top_candidates |-> <<>>] :
           p \in calculate_weighted_selection(reg, available_nms) }
    ELSE IF request.priority = "high"
    THEN LET rr_candidate == round_robin_selected(rr, available_nms, request.domain)
             rr1 == round_robin_indices_after(rr, available_nms, request.domain)
         IN  UNION { LET top_candidates ==
                            IF weighted_candidate # rr_candidate
                            THEN <<rr_candidate, weighted_candidate>>
                            ELSE <<rr_candidate>>
                     IN { [primary |-> p, rr |-> rr1, method |-> "hybrid_high",
                           top_candidates |-> top_candidates] :
                          p \in calculate_weighted_selection(reg, top_candidates) }
                     : weighted_candidate \in calculate_weighted_selection(reg, available_nms) }
    ELSE { [primary |-> round_robin_selected(rr, available_nms, request.domain),
            rr |-> round_robin_indices_after(rr, available_nms, request.domain),
            method |-> "round_robin_normal", top_candidates |-> <<>>] }

\* the rest of route_request, from "Get healthy NMs in domain"
route_by_priority(reg, pools, rr, request, t) ==
    UNION { LET h == get_healthy_nms_in_domain(reg, pools, request.domain, t, up) IN
            IF h.nms = <<>>
            THEN { [reg |-> h.reg, rr |-> rr,
                    decision |-> Decision(None, <<>>, "no_available_nms",
                                          NoHealthyError, <<>>)] }
            ELSE UNION { LET vals == IF request.require_validation
                                     THEN select_validation_nms(h.reg, pools, request,
                                                                {s.primary}, t)
                                     ELSE {[reg |-> h.reg, validators |-> <<>>]}
                         IN { [reg |-> update_load_tracking(v.reg, s.primary, v.validators),
                               rr |-> s.rr,
                               decision |-> Decision(s.primary, v.validators, s.method,
                                                     None, <<Len(h.nms)>>)] :
                              v \in vals }
                         : s \in select_primary(h.reg, rr, request, h.nms) }
            : up \in SUBSET Probed(reg, pools, request.domain, t) }

\* every (registry, cursors, decision) route_request(request) can end with
route_request(reg, pools, rr, request, t) ==
    IF PreferredUsable(reg, request)
    THEN route_preferred(reg, pools, rr, request, t)
    ELSE route_by_priority(reg, pools, rr, request, t)

\* faulty variant, for sensitivity of the properties: the decrement is not floored at 0
complete_request_no_floor(reg, nm_id) ==
    IF nm_id \in DOMAIN reg
    THEN [reg EXCEPT ![nm_id] = [@ EXCEPT !.current_load = @ - 1]]
    ELSE reg

\* faulty variant, for sensitivity of the properties: the load is left as it is
complete_request_keeps(reg, nm_id) == reg

\* faulty variant, for sensitivity of the properties: completing also marks the worker Healthy
complete_request_heals(reg, nm_id) ==
    IF nm_id \in DOMAIN reg
    THEN [reg EXCEPT ![nm_id] = [@ EXCEPT !.current_load = Max(0, @ - 1),
                                          !.status = HEALTHY]]
    ELSE reg

complete_request(reg, nm_id) ==
    IF nm_id \in DOMAIN reg
    THEN [reg EXCEPT ![nm_id] = [@ EXCEPT !.current_load = Max(0, @ - 1)]]
    ELSE reg

---------------------------------------------------------------------------
(* get_routing_stats *)

\* faulty variant, for sensitivity of the properties: the whole registry is counted for every domain
CountStatus_registry(reg, domain_nms, status) ==
    Cardinality({i \in DOMAIN reg : reg[i].status = status})

CountStatus(reg, domain_nms, status) ==
    Cardinality({i \in 1..Len(domain_nms) :
                    domain_nms[i] \in DOMAIN reg /\ reg[domain_nms[i]].status = status})

DomainStats(reg, pools, domain) ==
    LET domain_nms == IF domain \in DOMAIN pools THEN pools[domain] ELSE <<>>
    IN  [total |-> Len(domain_nms),
         healthy |-> CountStatus(reg, domain_nms, HEALTHY),
         degraded |-> CountStatus(reg, domain_nms, DEGRADED),
         unavailable |-> CountStatus(reg, domain_nms, UNAVAILABLE)]

RECURSIVE SumHealthy(_, _, _)
SumHealthy(reg, pools, domains) ==
    IF domains = {} THEN 0
    ELSE LET d == CHOOSE x \in domains : TRUE
         IN  DomainStats(reg, pools, d).healthy + SumHealthy(reg, pools, domains \ {d})

\* overall_health is the fraction healthy_count / len(nm_registry), kept as
\* <<numerator, denominator>>; the initial 0 is <<0, 1>>
get_routing_stats(reg, pools) ==
    [total_nms |-> Cardinality(DOMAIN reg),
     domains |-> [d \in Domain |-> DomainStats(reg, pools, d)],
     overall_health |->
        IF Cardinality(DOMAIN reg) > 0
        THEN <<SumHealthy(reg, pools, Domain), Cardinality(DOMAIN reg)>>
        ELSE <<0, 1>>]

---------------------------------------------------------------------------
(* The router driven one call at a time *)

\* the call in progress on the router: its name, its argument and what it returns;
\* NoCall between calls
NoCall == [op |-> "none", arg |-> None, ret |-> None]
Call(op, arg, ret) == [op |-> op, arg |-> arg, ret |-> ret]

Empty == [x \in {} |-> 0]

Idle == [t \in {} |-> 0]

Init ==
    /\ nm_registry = Empty
    /\ domain_pools = Empty
    /\ round_robin_indices = Empty
    /\ now = StartTime
    /\ result = NoCall
    /\ owed = [i \in IDs |-> 0]
    /\ rr_log = <<>>
    /\ th = Idle

Loads(reg) == [i \in DOMAIN reg |-> reg[i].current_load]

Register(nm) ==
    /\ result.op = "none"
    /\ nm_registry' = register_registry(nm_registry, nm)
    /\ domain_pools' = register_pools(domain_pools, nm)
    /\ round_robin_indices' = register_indices(domain_pools, round_robin_indices, nm)
    /\ result' = Call("register", nm, TRUE)
    /\ UNCHANGED <<now, owed, rr_log, th>>

\* the argument kept for the call is the id and the outcome of the probe of line 73
HealthCheck(nm_id, is_healthy) ==
    /\ result.op = "none"
    /\ nm_registry' = perform_health_check(nm_registry, nm_id, now, is_healthy)
    /\ result' = Call("health", [nm_id |-> nm_id, is_healthy |-> is_healthy],
                      nm_id \in DOMAIN nm_registry /\ nm_registry'[nm_id].status = HEALTHY)
    /\ UNCHANGED <<domain_pools, round_robin_indices, now, owed, rr_log, th>>

Route(request) ==
    /\ result.op = "none"
    /\ \A i \in DOMAIN nm_registry : nm_registry[i].current_load < MaxLoad
    /\ \E o \in route_request(nm_registry, domain_pools, round_robin_indices, request, now) :
        /\ nm_registry' = o.reg
        /\ round_robin_indices' = o.rr
        /\ result' = Call("route", request, o.decision)
    /\ UNCHANGED <<domain_pools, now, owed, rr_log, th>>

Complete(nm_id) ==
    /\ result.op = "none"
    /\ nm_registry' = complete_request(nm_registry, nm_id)
    /\ result' = Call("complete", nm_id, None)
    /\ UNCHANGED <<domain_pools, round_robin_indices, now, owed, rr_log, th>>

Stats ==
    /\ result.op = "none"
    /\ result' = Call("stats", None, get_routing_stats(nm_registry, domain_pools))
    /\ UNCHANGED <<nm_registry, domain_pools, round_robin_indices, now, owed, rr_log, th>>

\* the call returns to its caller
Return ==
    /\ result.op # "none"
    /\ result' = NoCall
    /\ UNCHANGED <<nm_registry, domain_pools, round_robin_indices, now, owed, rr_log, th>>

\* the clock moves between calls
Tick(dt) ==
    /\ result.op = "none"
    /\ now + dt <= MaxTime
    /\ now' = now + dt
    /\ UNCHANGED <<nm_registry, domain_pools, round_robin_indices, result, owed, rr_log, th>>

Next ==
    \/ \E nm \in Catalog : Register(nm)
    \/ \E nm_id \in CatalogIds \cup {UnknownId}, is_healthy \in BOOLEAN :
            HealthCheck(nm_id, is_healthy)
    \/ \E request \in RoutingRequest : Route(request)
    \/ \E nm_id \in CatalogIds \cup {UnknownId} : Complete(nm_id)
    \/ Stats
    \/ Return
    \/ \E dt \in {HealthCheckInterval, HealthCheckInterval + 1} : Tick(dt)

Spec == Init /\ [][Next]_vars

---------------------------------------------------------------------------
(* The router after a setup loop "for nm in demo_nms: router.register_nm(nm)" *)

RECURSIVE RegisterAll(_, _)
RegisterAll(st, nms) ==
    IF nms = <<>> THEN st
    ELSE RegisterAll([reg |-> register_registry(st.reg, Head(nms)),
                      pools |-> register_pools(st.pools, Head(nms)),
                      rr |-> register_indices(st.pools, st.rr, Head(nms))],
                     Tail(nms))

AfterSetup(nms) == RegisterAll([reg |-> Empty, pools |-> Empty, rr |-> Empty], nms)

InitAfter(nms) ==
    /\ nm_registry = AfterSetup(nms).reg
    /\ domain_pools = AfterSetup(nms).pools
    /\ round_robin_indices = AfterSetup(nms).rr
    /\ now = StartTime
    /\ result = NoCall
    /\ owed = [i \in IDs |-> 0]
    /\ rr_log = <<>>
    /\ th = Idle

SetupIds(nms) == {nms[i].id : i \in 1..Len(nms)}

(* Validation scenario: four workers in one domain *)

InitVal == InitAfter(SetupVal)

\* requests for the pool's domain that ask for validation
ValRequests ==
    {r \in RoutingRequest :
        r.domain = MEDICAL /\ r.require_validation /\ r.preferred_nm_id \in {None, "a"}}

NextVal ==
    \/ \E request \in ValRequests : Route(request)
    \/ \E nm_id \in SetupIds(SetupVal) : Complete(nm_id)
    \/ Return
    \/ \E dt \in {HealthCheckInterval + 1} : Tick(dt)

SpecVal == InitVal /\ [][NextVal]_vars

---------------------------------------------------------------------------
(* Properties of single calls, under Spec *)

RouteReturned == result.op = "route"
RouteStep == result'.op = "route"

\* complete_request once for the primary and once for each validation NM
RECURSIVE complete_all(_, _)
complete_all(reg, nm_ids) ==
    IF nm_ids = <<>> THEN reg
    ELSE complete_all(complete_request(reg, Head(nm_ids)), Tail(nm_ids))

Times(x, s) == Cardinality({k \in 1..Len(s) : s[k] = x})

\* C2: completing the primary and every validator of a route call that returned a
\* primary leaves every worker's current_load at its value before the route call.
C2_CompleteRestoresLoad ==
    [][ (RouteStep /\ result'.ret.primary # None) =>
            Loads(complete_all(nm_registry',
                               <<result'.ret.primary>> \o result'.ret.validation))
                = Loads(nm_registry) ]_vars

\* C3: a route call that returns a primary adds exactly 1 to the load of the
\* primary and of each validator and leaves the other loads; one that returns no
\* primary changes no load.
C3_RouteAddsLoad ==
    [][ RouteStep =>
            LET d == result'.ret IN
            IF d.primary # None
            THEN \A i \in DOMAIN nm_registry :
                    nm_registry'[i].current_load =
                        nm_registry[i].current_load
                        + (IF i = d.primary THEN 1 ELSE 0)
                        + Times(i, d.validation)
            ELSE Loads(nm_registry') = Loads(nm_registry) ]_vars

\* C6: with no usable preferred worker, a route call for a domain without a pool,
\* or whose workers are all Unavailable after the lazy refresh, returns primary
\* None, no validators, method no_available_nms and an error, and changes no load
\* and no cursor.
C6_NoCandidates ==
    [][ RouteStep =>
            LET req == result'.arg
                pref == req.preferred_nm_id
                usable == /\ pref \in DOMAIN nm_registry
                          /\ nm_registry[pref].status \in {HEALTHY, DEGRADED}
                none == \/ req.domain \notin DOMAIN domain_pools
                        \/ \A i \in Range(domain_pools[req.domain]) :
                                nm_registry'[i].status = UNAVAILABLE
            IN  (~usable /\ none) =>
                    /\ result'.ret.primary = None
                    /\ result'.ret.validation = <<>>
                    /\ result'.ret.routing_method = "no_available_nms"
                    /\ result'.ret.error = NoHealthyError
                    /\ Loads(nm_registry') = Loads(nm_registry)
                    /\ round_robin_indices' = round_robin_indices ]_vars

\* a route for a pool whose members are all Unavailable, the preferred one included
C6_Witness ==
    /\ RouteReturned
    /\ result.ret.routing_method = "no_available_nms"
    /\ result.arg.preferred_nm_id \in DOMAIN nm_registry
    /\ result.arg.domain \in DOMAIN domain_pools
    /\ Len(domain_pools[result.arg.domain]) = 2
    /\ \A i \in Range(domain_pools[result.arg.domain]) :
            nm_registry[i].status = UNAVAILABLE

PriorityMethod(priority) ==
    IF priority = "urgent" THEN "weighted_urgent"
    ELSE IF priority = "high" THEN "hybrid_high"
    ELSE "round_robin_normal"

\* C7: a registered preferred worker that is Healthy or Degraded is returned as
\* primary under every priority and no cursor moves; an unknown or Unavailable
\* preferred worker makes the call fall through to the priority-based selection.
C7_PreferredWorker ==
    [][ RouteStep =>
            LET req == result'.arg
                d == result'.ret
                pref == req.preferred_nm_id
            IN  IF /\ pref \in DOMAIN nm_registry
                   /\ nm_registry[pref].status \in {HEALTHY, DEGRADED}
                THEN /\ d.primary = pref
                     /\ d.routing_method \in {"preferred_with_validation", "preferred_only"}
                     /\ round_robin_indices' = round_robin_indices
                ELSE /\ d.routing_method \in {"no_available_nms", PriorityMethod(req.priority)}
                     /\ d.routing_method = "no_available_nms" <=> d.primary = None
                     /\ d.primary # None => d.primary \in Range(domain_pools[req.domain]) ]_vars

\* an urgent request whose preferred worker is Degraded gets that worker
C7_Witness ==
    /\ RouteReturned
    /\ result.arg.priority = "urgent"
    /\ result.arg.preferred_nm_id \in DOMAIN nm_registry
    /\ result.ret.primary = result.arg.preferred_nm_id
    /\ result.ret.routing_method = "preferred_with_validation"
    /\ nm_registry[result.ret.primary].status = DEGRADED
    /\ result.ret.validation # <<>>

\* C8: current_load >= 0 for every registered worker in every reachable state.
C8_LoadNonNegative ==
    \A i \in DOMAIN nm_registry : nm_registry[i].current_load >= 0

\* complete_request on a worker whose load was 0: "a" is registered with load 0
\* and a load is only added to workers the same call has health-checked, so a
\* last_health_check of 0 means no load was added since
C8_Witness ==
    /\ result.op = "complete"
    /\ result.arg = "a"
    /\ "a" \in DOMAIN nm_registry
    /\ nm_registry["a"].last_health_check = 0
    /\ nm_registry["a"].current_load = 0

---------------------------------------------------------------------------
(* Properties of the validation set, under SpecVal *)

NoDuplicates(s) == \A i, j \in 1..Len(s) : s[i] = s[j] => i = j

\* C1: when validation is required the returned validation list never contains
\* the primary, never names a worker twice and never has more than
\* max_validators entries.
C1_ValidationSet ==
    (RouteReturned /\ result.arg.require_validation) =>
        /\ result.ret.primary \notin Range(result.ret.validation)
        /\ NoDuplicates(result.ret.validation)
        /\ Len(result.ret.validation) <= MaxValidators

\* the Healthy/Degraded workers of the request's domain other than the primary,
\* in the state the call returns in
OtherEligible ==
    {i \in Range(domain_pools[result.arg.domain]) :
        /\ nm_registry[i].status \in {HEALTHY, DEGRADED}
        /\ i # result.ret.primary}

\* three other workers were eligible and two of them were chosen
C1_Witness ==
    /\ RouteReturned
    /\ result.arg.require_validation
    /\ result.arg.domain \in DOMAIN domain_pools
    /\ result.ret.primary # None
    /\ Cardinality(OtherEligible) = 3
    /\ Len(result.ret.validation) = MaxValidators

\* C4: when validation is required the number of validators is
\* min(max_validators, k), k the number of Healthy/Degraded workers of the
\* request's domain other than the primary.
C4_ValidatorCount ==
    (/\ RouteReturned
     /\ result.arg.require_validation
     /\ result.ret.primary # None
     /\ result.arg.domain \in DOMAIN domain_pools) =>
        Len(result.ret.validation) = Min(MaxValidators, Cardinality(OtherEligible))

---------------------------------------------------------------------------
(* Round-robin scenario: a caller sends normal requests for one domain and any
   requests for another, and keeps what the first domain's calls returned *)

InitRR == InitAfter(SetupRR)

\* the Healthy/Degraded members of a pool, in pool order
EligibleNow(reg, pools, domain) ==
    SelectSeq(pools[domain], LAMBDA i : reg[i].status \in {HEALTHY, DEGRADED})

RRRequests ==
    {r \in RoutingRequest :
        /\ r.preferred_nm_id = None
        /\ r.domain = MEDICAL => r.priority = "normal"}

RouteRR(request) ==
    /\ result.op = "none"
    /\ \A i \in DOMAIN nm_registry : nm_registry[i].current_load < MaxLoad
    /\ request.domain = MEDICAL => Len(rr_log) < MaxCalls
    /\ \E o \in route_request(nm_registry, domain_pools, round_robin_indices, request, now) :
        /\ nm_registry' = o.reg
        /\ round_robin_indices' = o.rr
        /\ result' = Call("route", request, o.decision)
        /\ rr_log' = IF request.domain = MEDICAL
                     THEN Append(rr_log, [available |-> EligibleNow(o.reg, domain_pools, MEDICAL),
                                          primary |-> o.decision.primary])
                     ELSE rr_log
    /\ UNCHANGED <<domain_pools, now, owed, th>>

NextRR ==
    \/ \E request \in RRRequests : RouteRR(request)
    \/ \E nm_id \in SetupIds(SetupRR) : Complete(nm_id)
    \/ Return
    \/ \E dt \in {HealthCheckInterval + 1} : Tick(dt)

SpecRR == InitRR /\ [][NextRR]_vars

ABC == <<"a", "b", "c">>

\* C5: from a fresh cursor, as long as the eligible candidates of the domain are
\* [a, b, c], its successive normal non-preferred route calls return a, b, c, a,
\* whatever calls for the other domain come between them.
C5_RoundRobinOrder ==
    \A n \in 1..Len(rr_log) :
        (\A k \in 1..n : rr_log[k].available = ABC) =>
            rr_log[n].primary = ABC[((n - 1) % Len(ABC)) + 1]

\* four calls were made with [a, b, c] eligible, and the other domain was routed
C5_Witness ==
    /\ Len(rr_log) = MaxCalls
    /\ \A k \in 1..Len(rr_log) : rr_log[k].available = ABC
    /\ round_robin_indices[MEDICAL] = 1
    /\ nm_registry["e"].current_load > 0

---------------------------------------------------------------------------
(* Correct bookkeeping: workers are registered with current_load = 0 and the
   caller calls complete_request exactly once per worker of each routed request
   (as process_user_query does); owed counts the calls it still has to make *)

RECURSIVE Owe(_, _)
Owe(o, nm_ids) ==
    IF nm_ids = <<>> THEN o
    ELSE Owe([o EXCEPT ![Head(nm_ids)] = @ + 1], Tail(nm_ids))

RegisterBook(nm) ==
    /\ nm.current_load = 0
    /\ Register(nm)

RouteBook(request) ==
    /\ result.op = "none"
    /\ \A i \in IDs : owed[i] < MaxOwed
    /\ \E o \in route_request(nm_registry, domain_pools, round_robin_indices, request, now) :
        /\ nm_registry' = o.reg
        /\ round_robin_indices' = o.rr
        /\ result' = Call("route", request, o.decision)
        /\ owed' = IF o.decision.primary # None
                   THEN Owe(owed, <<o.decision.primary>> \o o.decision.validation)
                   ELSE owed
    /\ UNCHANGED <<domain_pools, now, rr_log, th>>

CompleteBook(nm_id) ==
    /\ result.op = "none"
    /\ owed[nm_id] > 0
    /\ nm_registry' = complete_request(nm_registry, nm_id)
    /\ result' = Call("complete", nm_id, None)
    /\ owed' = [owed EXCEPT ![nm_id] = @ - 1]
    /\ UNCHANGED <<domain_pools, round_robin_indices, now, rr_log, th>>

NextBook ==
    \/ \E nm \in Catalog : RegisterBook(nm)
    \/ \E request \in RoutingRequest : RouteBook(request)
    \/ \E nm_id \in CatalogIds : CompleteBook(nm_id)
    \/ Return
    \/ \E dt \in {HealthCheckInterval + 1} : Tick(dt)

SpecBook == Init /\ [][NextBook]_vars

\* C9 as claimed: under correct bookkeeping current_load <= max_concurrent for
\* every worker in every reachable state.
C9_LoadWithinCapacity ==
    \A i \in DOMAIN nm_registry :
        nm_registry[i].current_load <= nm_registry[i].max_concurrent

\* C9 as amended: under correct bookkeeping the current_load of a worker never
\* exceeds the number of complete_request calls still owed for it; it is not
\* capped by max_concurrent.
C9_LoadWithinOwed ==
    \A i \in DOMAIN nm_registry : nm_registry[i].current_load <= owed[i]

\* a worker over its capacity, marked Degraded by a health check, routed again
C9_Witness ==
    /\ RouteReturned
    /\ result.ret.primary # None
    /\ nm_registry[result.ret.primary].status = DEGRADED
    /\ nm_registry[result.ret.primary].current_load
            > nm_registry[result.ret.primary].max_concurrent
    /\ nm_registry[result.ret.primary].current_load = owed[result.ret.primary]

---------------------------------------------------------------------------
(* Two threads inside route_request on one router.  The router takes no lock, so
   a thread switch can fall between any two accesses to the shared dicts: the
   read and the write of round_robin_indices[domain] in round_robin_selection,
   and the read and the write of "current_load += 1", are separate steps. *)

Threads == {"t1", "t2"}

SetupConc == SubSeq(SetupRR, 1, 2)

ConcRequests == {r \in RoutingRequest : r.preferred_nm_id = None /\ r.domain = MEDICAL}

ThreadStart ==
    [pc |-> "start", request |-> None, available_nms |-> <<>>, current_index |-> 0,
     primary_nm |-> None, validation_nms |-> <<>>, routing_method |-> None,
     todo |-> <<>>, load |-> 0]

InitConc ==
    /\ nm_registry = AfterSetup(SetupConc).reg
    /\ domain_pools = AfterSetup(SetupConc).pools
    /\ round_robin_indices = AfterSetup(SetupConc).rr
    /\ now = StartTime
    /\ result = NoCall
    /\ owed = [i \in IDs |-> 0]
    /\ rr_log = <<>>
    /\ th = [t \in Threads |-> ThreadStart]

\* available_nms = self.get_healthy_nms_in_domain(request.domain), and the
\* no_available_nms return
T_Begin(t, request) ==
    /\ th[t].pc = "start"
    /\ \E up \in SUBSET Probed(nm_registry, domain_pools, request.domain, now) :
        LET h == get_healthy_nms_in_domain(nm_registry, domain_pools, request.domain, now, up)
        IN  /\ nm_registry' = h.reg
            /\ th' = [th EXCEPT ![t] =
                        [@ EXCEPT !.request = request,
                                  !.available_nms = h.nms,
                                  !.routing_method =
                                        IF h.nms = <<>> THEN "no_available_nms" ELSE None,
                                  !.pc = IF h.nms = <<>> THEN "done"
                                         ELSE IF request.priority = "urgent" THEN "weighted"
                                         ELSE "rr_read"]]
    /\ UNCHANGED <<domain_pools, round_robin_indices, now, result, owed, rr_log>>

\* urgent: primary_nm = self.calculate_weighted_selection(available_nms)
T_Weighted(t) ==
    /\ th[t].pc = "weighted"
    /\ \E p \in calculate_weighted_selection(nm_registry, th[t].available_nms) :
        th' = [th EXCEPT ![t] = [@ EXCEPT !.primary_nm = p,
                                          !.routing_method = "weighted_urgent",
                                          !.pc = "validate"]]
    /\ UNCHANGED <<nm_registry, domain_pools, round_robin_indices, now, result, owed, rr_log>>

\* round_robin_selection: current_index = self.round_robin_indices.get(domain, 0)
T_RRRead(t) ==
    /\ th[t].pc = "rr_read"
    /\ th' = [th EXCEPT ![t] =
                [@ EXCEPT !.current_index =
                                RRIndex(round_robin_indices, th[t].available_nms,
                                        th[t].request.domain),
                          !.pc = "rr_write"]]
    /\ UNCHANGED <<nm_registry, domain_pools, round_robin_indices, now, result, owed, rr_log>>

\* round_robin_selection: self.round_robin_indices[domain] = (current_index + 1) % len,
\* then the rest of the primary selection
T_RRWrite(t) ==
    /\ th[t].pc = "rr_write"
    /\ LET nm_ids == th[t].available_nms
           rr_candidate == nm_ids[th[t].current_index + 1]
       IN  /\ round_robin_indices' =
                [round_robin_indices EXCEPT ![th[t].request.domain] =
                    (th[t].current_index + 1) % Len(nm_ids)]
           /\ IF th[t].request.priority = "high"
              THEN \E weighted_candidate \in calculate_weighted_selection(nm_registry, nm_ids) :
                   \E p \in calculate_weighted_selection(nm_registry,
                                IF weighted_candidate # rr_candidate
                                THEN <<rr_candidate, weighted_candidate>>
                                ELSE <<rr_candidate>>) :
                        th' = [th EXCEPT ![t] = [@ EXCEPT !.primary_nm = p,
                                                          !.routing_method = "hybrid_high",
                                                          !.pc = "validate"]]
              ELSE th' = [th EXCEPT ![t] = [@ EXCEPT !.primary_nm = rr_candidate,
                                                     !.routing_method = "round_robin_normal",
                                                     !.pc = "validate"]]
    /\ UNCHANGED <<nm_registry, domain_pools, now, result, owed, rr_log>>

\* validation_nms = self._select_validation_nms(request, exclude=[primary_nm])
T_Validate(t) ==
    /\ th[t].pc = "validate"
    /\ \E v \in IF th[t].request.require_validation
                THEN select_validation_nms(nm_registry, domain_pools, th[t].request,
                                           {th[t].primary_nm}, now)
                ELSE {[reg |-> nm_registry, validators |-> <<>>]} :
        /\ nm_registry' = v.reg
        /\ th' = [th EXCEPT ![t] =
                    [@ EXCEPT !.validation_nms = v.validators,
                              !.todo = <<th[t].primary_nm>> \o v.validators,
                              !.pc = "load_read"]]
    /\ UNCHANGED <<domain_pools, round_robin_indices, now, result, owed, rr_log>>

\* "current_load += 1": the read
T_LoadRead(t) ==
    /\ th[t].pc = "load_read"
    /\ th' = [th EXCEPT ![t] =
                [@ EXCEPT !.load = nm_registry[Head(th[t].todo)].current_load,
                          !.pc = "load_write"]]
    /\ UNCHANGED <<nm_registry, domain_pools, round_robin_indices, now, result, owed, rr_log>>

\* "current_load += 1": the write, then the next worker or the return
T_LoadWrite(t) ==
    /\ th[t].pc = "load_write"
    /\ nm_registry' = [nm_registry EXCEPT ![Head(th[t].todo)] =
                            [@ EXCEPT !.current_load = th[t].load + 1]]
    /\ th' = [th EXCEPT ![t] =
                [@ EXCEPT !.todo = Tail(th[t].todo),
                          !.pc = IF Tail(th[t].todo) = <<>> THEN "done" ELSE "load_read"]]
    /\ UNCHANGED <<domain_pools, round_robin_indices, now, result, owed, rr_log>>

NextConc ==
    \E t \in Threads :
        \/ \E request \in ConcRequests : T_Begin(t, request)
        \/ T_Weighted(t)
        \/ T_RRRead(t)
        \/ T_RRWrite(t)
        \/ T_Validate(t)
        \/ T_LoadRead(t)
        \/ T_LoadWrite(t)

SpecConc == InitConc /\ [][NextConc]_vars

AllReturned == \A t \in Threads : th[t].pc = "done"

\* how often thread t's decision names worker i
Named(t, i) ==
    (IF th[t].primary_nm = i THEN 1 ELSE 0) + Times(i, th[t].validation_nms)

RECURSIVE NamedBy(_, _)
NamedBy(ts, i) ==
    IF ts = {} THEN 0
    ELSE LET t == CHOOSE x \in ts : TRUE IN Named(t, i) + NamedBy(ts \ {t}, i)

\* C10: when two concurrent route calls choose the same worker, after both have
\* returned its current_load has grown by the number of times the two decisions
\* name it (the loads start at 0).
C10_NoLostIncrement ==
    AllReturned =>
        \A i \in DOMAIN nm_registry :
            (\A t \in Threads : Named(t, i) > 0) =>
                nm_registry[i].current_load = NamedBy(Threads, i)

\* C11: two concurrent normal-priority route calls for one domain that both see
\* the eligible workers [a, b] (the cursor starts at 0) return different
\* primaries and leave the cursor advanced by two positions (mod 2), as some
\* serial order of the two calls would.
C11_CursorNotInterleaved ==
    (/\ AllReturned
     /\ \A t \in Threads : /\ th[t].request.priority = "normal"
                           /\ th[t].available_nms = <<"a", "b">>) =>
        /\ th["t1"].primary_nm # th["t2"].primary_nm
        /\ round_robin_indices[MEDICAL] = (0 + 2) % 2

---------------------------------------------------------------------------
(* Further properties of single calls, under Spec *)

\* the request of a route step names no registered Healthy/Degraded preferred worker
NoPreferredStep ==
    LET pref == result'.arg.preferred_nm_id
    IN  ~(/\ pref \in DOMAIN nm_registry
          /\ nm_registry[pref].status \in {HEALTHY, DEGRADED})

\* the cursor position round-robin selects at: the stored cursor, or 0 when it
\* is not below the number of candidates
CursorAt(rr, domain, n) ==
    IF domain \in DOMAIN rr /\ rr[domain] < n THEN rr[domain] ELSE 0

\* C12: a request whose priority is none of normal, high, urgent is routed as a
\* normal one: the primary is the candidate under the round-robin cursor, the
\* method is round_robin_normal, the cursor advances once and there is no
\* error; the only error decision is the one for an empty candidate list.
C12_UnknownPriorityIsNormal ==
    [][ (/\ RouteStep
         /\ result'.arg.priority \notin {"normal", "high", "urgent"}
         /\ NoPreferredStep) =>
            LET dom == result'.arg.domain
                d == result'.ret
                available == IF dom \in DOMAIN domain_pools
                             THEN EligibleNow(nm_registry', domain_pools, dom)
                             ELSE <<>>
                index == CursorAt(round_robin_indices, dom, Len(available))
            IN  IF available = <<>>
                THEN /\ d.routing_method = "no_available_nms"
                     /\ round_robin_indices' = round_robin_indices
                ELSE /\ d.primary = available[index + 1]
                     /\ d.routing_method = "round_robin_normal"
                     /\ d.error = None
                     /\ round_robin_indices' =
                            [round_robin_indices EXCEPT ![dom] = (index + 1) % Len(available)]
      ]_vars

\* a "low" request served from cursor position 1 of a pool of two eligible workers
C12_Witness ==
    /\ RouteReturned
    /\ result.arg.priority = "low"
    /\ result.arg.preferred_nm_id = None
    /\ result.arg.domain = MEDICAL
    /\ result.ret.primary = "b"
    /\ result.ret.routing_method = "round_robin_normal"
    /\ result.ret.total_available = <<2>>
    /\ round_robin_indices[MEDICAL] = 0

\* C13: routingStats reports overall_health 0 when no worker is registered and
\* 1.0 (numerator = denominator) when every registered worker is Healthy.
C13_OverallHealth ==
    result.op = "stats" =>
        /\ nm_registry = Empty => result.ret.overall_health[1] = 0
        /\ (/\ nm_registry # Empty
            /\ \A i \in DOMAIN nm_registry : nm_registry[i].status = HEALTHY) =>
                result.ret.overall_health[1] = result.ret.overall_health[2]

\* C15: domain pools are disjoint: no worker id is in the pools of two domains.
C15_PoolsDisjoint ==
    \A d1, d2 \in DOMAIN domain_pools :
        d1 # d2 => Range(domain_pools[d1]) \cap Range(domain_pools[d2]) = {}

\* C14: register returns True and is idempotent on id: registering an id already
\* in its domain's pool leaves the pools as they are, no pool ever holds an id
\* twice, the cursor of a domain without a pool is set to 0 and no other cursor
\* changes.
C14_RegisterIdempotent ==
    [][ result'.op = "register" =>
            LET nm == result'.arg
                known == nm.domain \in DOMAIN domain_pools
            IN  /\ result'.ret = TRUE
                /\ (known /\ nm.id \in Range(domain_pools[nm.domain])) =>
                        domain_pools' = domain_pools
                /\ \A d \in DOMAIN domain_pools' : NoDuplicates(domain_pools'[d])
                /\ IF known
                   THEN round_robin_indices' = round_robin_indices
                   ELSE /\ DOMAIN round_robin_indices' =
                                (DOMAIN round_robin_indices) \cup {nm.domain}
                        /\ round_robin_indices'[nm.domain] = 0
                        /\ \A d \in DOMAIN round_robin_indices :
                                round_robin_indices'[d] = round_robin_indices[d]
      ]_vars

\* "b" is registered again in MEDICAL: the cursor 1 was left by a route call that
\* had both a and b as candidates, so b was in the pool before this call
C14_Witness ==
    /\ result.op = "register"
    /\ result.arg.id = "b"
    /\ result.arg.domain = MEDICAL
    /\ domain_pools[MEDICAL] = <<"a", "b">>
    /\ round_robin_indices[MEDICAL] = 1

\* C16: completeRequest(w) on a registered worker sets its current_load to
\* max(0, current_load - 1) and changes nothing else; on an unknown id it changes
\* nothing.
C16_CompleteFrame ==
    [][ result'.op = "complete" =>
            LET w == result'.arg IN
            /\ DOMAIN nm_registry' = DOMAIN nm_registry
            /\ \A i \in DOMAIN nm_registry :
                    nm_registry'[i] =
                        IF i = w
                        THEN [nm_registry[i] EXCEPT
                                !.current_load = IF @ >= 1 THEN @ - 1 ELSE 0]
                        ELSE nm_registry[i]
            /\ domain_pools' = domain_pools
            /\ round_robin_indices' = round_robin_indices
            /\ now' = now
      ]_vars

\* a Degraded worker (its load had reached max_concurrent at its health check)
\* whose load is one below max_concurrent after the call: this call lowered it
\* and left the status
C16_Witness ==
    /\ result.op = "complete"
    /\ result.arg \in DOMAIN nm_registry
    /\ nm_registry[result.arg].status = DEGRADED
    /\ nm_registry[result.arg].max_concurrent = 2
    /\ nm_registry[result.arg].current_load = 1

\* C17: routingStats changes no state and reports, for each domain, the length
\* of its pool and the number of its members of each stored status, with
\* total_nms the number of registered ids.
C17_StatsReadOnly ==
    [][ result'.op = "stats" =>
            /\ UNCHANGED <<nm_registry, domain_pools, round_robin_indices, now>>
            /\ result'.ret.total_nms = Cardinality(DOMAIN nm_registry)
            /\ \A d \in Domain :
                LET pool == IF d \in DOMAIN domain_pools THEN domain_pools[d] ELSE <<>>
                    n(status) == Cardinality({k \in 1..Len(pool) :
                                                nm_registry[pool[k]].status = status})
                    st == result'.ret.domains[d]
                IN  /\ st.total = Len(pool)
                    /\ st.healthy = n(HEALTHY)
                    /\ st.degraded = n(DEGRADED)
                    /\ st.unavailable = n(UNAVAILABLE)
      ]_vars

\* statistics of a pool with one Degraded and one Unavailable worker, while the
\* other domain has no pool
C17_Witness ==
    /\ result.op = "stats"
    /\ result.ret.total_nms = 2
    /\ result.ret.domains[MEDICAL] =
            [total |-> 2, healthy |-> 0, degraded |-> 1, unavailable |-> 1]
    /\ CARDIOLOGY \notin DOMAIN domain_pools

\* C19: a health recomputation of a registered worker sets its status to
\* Unavailable when the probe fails, to Healthy when it succeeds and
\* current_load < max_concurrent, to Degraded when it succeeds and
\* current_load >= max_concurrent, sets last_health_check to now, and changes
\* nothing else; for an unknown id it changes nothing.
C19_HealthRecomputation ==
    [][ result'.op = "health" =>
            LET w == result'.arg.nm_id
                up == result'.arg.is_healthy
            IN  /\ DOMAIN nm_registry' = DOMAIN nm_registry
                /\ \A i \in DOMAIN nm_registry :
                        nm_registry'[i] =
                            IF i = w
                            THEN [nm_registry[i] EXCEPT
                                    !.status =
                                        IF ~up THEN UNAVAILABLE
                                        ELSE IF nm_registry[i].current_load
                                                    < nm_registry[i].max_concurrent
                                             THEN HEALTHY
                                             ELSE DEGRADED,
                                    !.last_health_check = now]
                            ELSE nm_registry[i]
                /\ domain_pools' = domain_pools
                /\ round_robin_indices' = round_robin_indices
      ]_vars

\* a reachable worker at its capacity has just been marked Degraded
C19_Witness ==
    /\ result.op = "health"
    /\ result.arg.is_healthy
    /\ result.arg.nm_id \in DOMAIN nm_registry
    /\ nm_registry[result.arg.nm_id].status = DEGRADED
    /\ nm_registry[result.arg.nm_id].current_load
            = nm_registry[result.arg.nm_id].max_concurrent
    /\ nm_registry[result.arg.nm_id].last_health_check = now
    /\ now > StartTime

---------------------------------------------------------------------------
(* ADPMasterController (src/adp_demo_script.py): process_user_query routes a
   query, delegates it and then calls complete_request for every worker of the
   decision.  Its callers run one query at a time (the console demo awaits each
   call, the web handler runs each to completion on the single-threaded
   HTTPServer), so a query is one step on the router. *)

\* setup_demo_environment registers one worker per domain
SetupDemo == <<SetupRR[1], SetupRR[4]>>

\* Domain(domain.lower()), with the fallback to MEDICAL on ValueError
DomainOf(name) == IF name \in Domain THEN name ELSE MEDICAL

DomainNames == Domain \cup {"other"}

\* RoutingRequest(message_id, domain, priority, require_validation=True)
QueryRequest(name, priority) ==
    [domain |-> DomainOf(name), priority |-> priority,
     preferred_nm_id |-> None, require_validation |-> TRUE]

\* faulty variant, for sensitivity of the properties: only the primary is completed
process_user_query_primary_only(reg, pools, rr, name, priority, t) ==
    { LET d == o.decision
          calls == IF d.primary # None THEN <<d.primary>> ELSE <<>>
      IN  [reg |-> complete_all(o.reg, calls), rr |-> o.rr,
           routing |-> d, completed |-> calls] :
      o \in route_request(reg, pools, rr, QueryRequest(name, priority), t) }

\* every (registry, cursors, routing_result, complete_request calls made) a query
\* can end with; without a primary it returns before any complete_request
process_user_query(reg, pools, rr, name, priority, t) ==
    { LET d == o.decision
          calls == IF d.primary # None THEN <<d.primary>> \o d.validation ELSE <<>>
      IN  [reg |-> complete_all(o.reg, calls), rr |-> o.rr,
           routing |-> d, completed |-> calls] :
      o \in route_request(reg, pools, rr, QueryRequest(name, priority), t) }

Query(name, priority) ==
    /\ result.op = "none"
    /\ \E q \in process_user_query(nm_registry, domain_pools, round_robin_indices,
                                   name, priority, now) :
        /\ nm_registry' = q.reg
        /\ round_robin_indices' = q.rr
        /\ result' = Call("query", QueryRequest(name, priority),
                          [routing |-> q.routing, completed |-> q.completed])
    /\ UNCHANGED <<domain_pools, now, owed, rr_log, th>>

\* the demo environment, or one with several workers in a domain, where the
\* decision has validation workers
InitMC == \E nms \in {SetupDemo, SetupRR} : InitAfter(nms)

NextMC ==
    \/ \E name \in DomainNames, priority \in Priorities : Query(name, priority)
    \/ Return
    \/ \E dt \in {HealthCheckInterval, HealthCheckInterval + 1} : Tick(dt)

SpecMC == InitMC /\ [][NextMC]_vars

\* C18: a query whose routing returned a primary calls complete_request once for
\* the primary and once for each validation worker, one without a primary calls
\* none, and after every query each worker's current_load is what it was before
\* it (0, as registered).
C18_QueryReleasesLoad ==
    [][ result'.op = "query" =>
            LET d == result'.ret.routing
                calls == result'.ret.completed
            IN  /\ d.primary = None => calls = <<>>
                /\ d.primary # None =>
                        /\ Len(calls) = 1 + Len(d.validation)
                        /\ \A i \in DOMAIN nm_registry :
                                Times(i, calls) =
                                    (IF i = d.primary THEN 1 ELSE 0) + Times(i, d.validation)
                /\ \A i \in DOMAIN nm_registry :
                        /\ nm_registry'[i].current_load = nm_registry[i].current_load
                        /\ nm_registry'[i].current_load = 0
      ]_vars

\* a query served by a primary and a validation worker, both completed
C18_Witness ==
    /\ result.op = "query"
    /\ result.ret.routing.primary = "b"
    /\ result.ret.routing.validation # <<>>
    /\ Len(result.ret.completed) = 2
    /\ \A i \in DOMAIN nm_registry : nm_registry[i].current_load = 0

---------------------------------------------------------------------------
(* get_healthy_nms_in_domain called on its own, between health checks, routed
   requests and completions at different times *)

InitHealth == InitAfter(SetupConc)

\* healthy_nms = router.get_healthy_nms_in_domain(domain)
Healthy(domain) ==
    /\ result.op = "none"
    /\ \E up \in SUBSET Probed(nm_registry, domain_pools, domain, now) :
        LET h == get_healthy_nms_in_domain(nm_registry, domain_pools, domain, now, up)
        IN  /\ nm_registry' = h.reg
            /\ result' = Call("healthy", domain, h.nms)
    /\ UNCHANGED <<domain_pools, round_robin_indices, now, owed, rr_log, th>>

HealthRequests ==
    {r \in RoutingRequest :
        /\ r.domain = MEDICAL
        /\ r.priority = "normal"
        /\ r.preferred_nm_id = None
        /\ ~r.require_validation}

NextHealth ==
    \/ \E domain \in Domain : Healthy(domain)
    \/ \E nm_id \in SetupIds(SetupConc), is_healthy \in BOOLEAN :
            HealthCheck(nm_id, is_healthy)
    \/ \E request \in HealthRequests : Route(request)
    \/ \E nm_id \in SetupIds(SetupConc) : Complete(nm_id)
    \/ Return
    \/ \E dt \in {HealthCheckInterval, HealthCheckInterval + 1} : Tick(dt)

SpecHealth == InitHealth /\ [][NextHealth]_vars

\* C20: healthyCandidates(domain) recomputes the health of exactly the pool
\* members with now - last_health_check > 30 and leaves the stored record of the
\* others; it returns, in pool order, the members that are Healthy or Degraded
\* after that; a domain without a pool yields the empty list.
C20_HealthyCandidates ==
    [][ result'.op = "healthy" =>
            LET dom == result'.arg IN
            /\ domain_pools' = domain_pools
            /\ round_robin_indices' = round_robin_indices
            /\ IF dom \notin DOMAIN domain_pools
               THEN /\ result'.ret = <<>>
                    /\ nm_registry' = nm_registry
               ELSE /\ DOMAIN nm_registry' = DOMAIN nm_registry
                    /\ \A i \in DOMAIN nm_registry :
                        IF /\ i \in Range(domain_pools[dom])
                           /\ now - nm_registry[i].last_health_check > HealthCheckInterval
                        THEN /\ nm_registry'[i].last_health_check = now
                             /\ nm_registry'[i].status \in
                                    {UNAVAILABLE,
                                     IF nm_registry[i].current_load
                                            < nm_registry[i].max_concurrent
                                     THEN HEALTHY ELSE DEGRADED}
                             /\ [nm_registry'[i] EXCEPT
                                    !.status = nm_registry[i].status,
                                    !.last_health_check = nm_registry[i].last_health_check]
                                  = nm_registry[i]
                        ELSE nm_registry'[i] = nm_registry[i]
                    /\ result'.ret = EligibleNow(nm_registry', domain_pools, dom)
      ]_vars

\* a was found Unavailable exactly 30 s ago and is not probed again: it is left
\* out on its stored status; b, checked longer ago, is probed and returned
C20_Witness ==
    /\ result.op = "healthy"
    /\ result.arg = MEDICAL
    /\ result.ret = <<"b">>
    /\ nm_registry["a"].status = UNAVAILABLE
    /\ nm_registry["a"].last_health_check = now - HealthCheckInterval
    /\ nm_registry["b"].last_health_check = now

\* C21: healthyCandidates changes only status and last_health_check of workers
\* of the queried domain's pool (no load, cursor, pool, or worker outside the
\* pool), and a second call at the same time changes nothing and returns the
\* same list, whatever its probes would have answered.
C21_HealthyCandidatesFrame ==
    [][ result'.op = "healthy" =>
            LET dom == result'.arg
                pool == IF dom \in DOMAIN domain_pools
                        THEN Range(domain_pools[dom]) ELSE {}
            IN  /\ domain_pools' = domain_pools
                /\ round_robin_indices' = round_robin_indices
                /\ DOMAIN nm_registry' = DOMAIN nm_registry
                /\ \A i \in DOMAIN nm_registry :
                        IF i \in pool
                        THEN \A f \in (DOMAIN nm_registry[i]) \ {"status", "last_health_check"} :
                                nm_registry'[i][f] = nm_registry[i][f]
                        ELSE nm_registry'[i] = nm_registry[i]
                /\ \A up \in SUBSET pool :
                        LET again == get_healthy_nms_in_domain(nm_registry', domain_pools,
                                                               dom, now, up)
                        IN  /\ again.reg = nm_registry'
                            /\ again.nms = result'.ret
      ]_vars

\* both workers were due and are recomputed: a, loaded to its capacity, becomes
\* Degraded and keeps its load; b becomes Unavailable
C21_Witness ==
    /\ result.op = "healthy"
    /\ result.arg = MEDICAL
    /\ result.ret = <<"a">>
    /\ nm_registry["a"].status = DEGRADED
    /\ nm_registry["a"].current_load = 1
    /\ nm_registry["a"].last_health_check = now
    /\ nm_registry["b"].status = UNAVAILABLE
    /\ nm_registry["b"].last_health_check = now

---------------------------------------------------------------------------
(* The selection functions called on their own: calculate_weighted_selection,
   round_robin_selection and the primary selection of route_request, on lists
   of registered ids.  a and c have effective weight 0 (accuracy_score 0), b a
   positive one; each worker is registered idle or loaded to its capacity. *)

SetupSel == SubSeq(SetupVal, 1, 3)

\* the same records with current_load given per worker
WithLoads(nms, loads) == [i \in 1..Len(nms) |-> [nms[i] EXCEPT !.current_load = loads[i]]]

InitSel ==
    \E loads \in [1..Len(SetupSel) -> 0..1] :
        InitAfter(WithLoads(SetupSel,
                            [i \in 1..Len(SetupSel) |->
                                loads[i] * SetupSel[i].max_concurrent]))

\* the lists of distinct registered ids
SelLists ==
    {l \in UNION {[1..n -> SetupIds(SetupSel)] : n \in 0..Len(SetupSel)} : NoDuplicates(l)}

\* what get_healthy_nms_in_domain can return: the non-empty sublists of the pool
SelAvailable ==
    {l \in SelLists : l # <<>> /\ \A i, j \in 1..Len(l) :
        i < j => \E p, q \in 1..Len(SetupSel) :
                    p < q /\ SetupSel[p].id = l[i] /\ SetupSel[q].id = l[j]}

\* selected = router.calculate_weighted_selection(nm_ids)
Weighted(nm_ids) ==
    /\ result.op = "none"
    /\ \E selected \in calculate_weighted_selection(nm_registry, nm_ids) :
            result' = Call("weighted", nm_ids, selected)
    /\ UNCHANGED <<nm_registry, domain_pools, round_robin_indices, now, owed, rr_log, th>>

\* selected = router.round_robin_selection(nm_ids, domain)
RoundRobin(nm_ids, domain) ==
    /\ result.op = "none"
    /\ round_robin_indices' = round_robin_indices_after(round_robin_indices, nm_ids, domain)
    /\ result' = Call("round_robin", [nm_ids |-> nm_ids, domain |-> domain],
                      round_robin_selected(round_robin_indices, nm_ids, domain))
    /\ UNCHANGED <<nm_registry, domain_pools, now, owed, rr_log, th>>

\* "Select primary NM based on priority" for a high-priority request
SelectPrimary(request, available_nms) ==
    /\ result.op = "none"
    /\ \E s \in select_primary(nm_registry, round_robin_indices, request, available_nms) :
        /\ round_robin_indices' = s.rr
        /\ result' = Call("select", [request |-> request, available_nms |-> available_nms], s)
    /\ UNCHANGED <<nm_registry, domain_pools, now, owed, rr_log, th>>

SelRequests ==
    {r \in RoutingRequest :
        /\ r.domain = MEDICAL
        /\ r.priority = "high"
        /\ r.preferred_nm_id = None
        /\ ~r.require_validation}

NextSel ==
    \/ \E nm_ids \in SelLists : Weighted(nm_ids)
    \/ \E nm_ids \in SelLists, domain \in Domain : RoundRobin(nm_ids, domain)
    \/ \E request \in SelRequests, available_nms \in SelAvailable :
            SelectPrimary(request, available_nms)
    \/ \E nm_id \in SetupIds(SetupSel), is_healthy \in BOOLEAN :
            HealthCheck(nm_id, is_healthy)
    \/ Return

SpecSel == InitSel /\ [][NextSel]_vars

\* C22: weighted selection returns None exactly on the empty list; on a
\* non-empty list it returns a member of the list for every draw (the only
\* member of a one-element list, some member when all effective weights are 0),
\* and it changes no router state.
C22_WeightedReturnsMember ==
    [][ result'.op = "weighted" =>
            LET nm_ids == result'.arg
                selected == result'.ret
            IN  /\ selected = None <=> nm_ids = <<>>
                /\ nm_ids # <<>> => selected \in Range(nm_ids)
                /\ Len(nm_ids) = 1 => selected = nm_ids[1]
                /\ UNCHANGED <<nm_registry, domain_pools, round_robin_indices, now>>
      ]_vars

\* both candidates have effective weight 0 (accuracy_score 0) and the second is
\* returned
C22_Witness ==
    /\ result.op = "weighted"
    /\ result.arg = <<"a", "c">>
    /\ nm_registry["a"].accuracy_score = 0
    /\ nm_registry["c"].accuracy_score = 0
    /\ result.ret = "c"

\* C28: when the total effective weight of the candidates is positive, weighted
\* selection never returns a candidate whose own effective weight is 0, for
\* every draw of [0, total].
C28_NoZeroWeightWinner ==
    [][ result'.op = "weighted" =>
            LET nm_ids == result'.arg
                selected == result'.ret
            IN  (nm_ids # <<>> /\ TotalWeight(nm_registry, nm_ids) > 0) =>
                    EffectiveWeight(nm_registry[selected]) > 0
      ]_vars

\* C23: round-robin selection on a non-empty list of length n returns the
\* element at index c, c the domain's stored cursor if it is < n and 0 otherwise,
\* and stores (c + 1) mod n as that domain's cursor; on the empty list it returns
\* None and leaves the cursors.
C23_RoundRobinSelection ==
    [][ result'.op = "round_robin" =>
            LET nm_ids == result'.arg.nm_ids
                dom == result'.arg.domain
                n == Len(nm_ids)
                c == CursorAt(round_robin_indices, dom, n)
            IN  IF n = 0
                THEN /\ result'.ret = None
                     /\ round_robin_indices' = round_robin_indices
                ELSE /\ result'.ret = nm_ids[c + 1]
                     /\ DOMAIN round_robin_indices' = (DOMAIN round_robin_indices) \cup {dom}
                     /\ round_robin_indices'[dom] = (c + 1) % n
                     /\ \A d \in (DOMAIN round_robin_indices) \ {dom} :
                            round_robin_indices'[d] = round_robin_indices[d]
      ]_vars

\* the last element of a three-element list is returned and the cursor wraps to 0
C23_Witness ==
    /\ result.op = "round_robin"
    /\ result.arg.domain = MEDICAL
    /\ result.arg.nm_ids = <<"c", "b", "a">>
    /\ result.ret = "a"
    /\ round_robin_indices[MEDICAL] = 0

\* C24: for a high-priority request with a non-empty eligible list the final
\* candidate list is the round-robin candidate followed by the weighted
\* candidate when that is another member of the list; the primary is one of
\* them, it is the round-robin candidate when the two coincide, and the cursor
\* of the domain advances exactly once.
C24_HybridHigh ==
    [][ (result'.op = "select" /\ result'.arg.request.priority = "high") =>
            LET available_nms == result'.arg.available_nms
                dom == result'.arg.request.domain
                n == Len(available_nms)
                c == CursorAt(round_robin_indices, dom, n)
                top == result'.ret.top_candidates
            IN  /\ Len(top) \in {1, 2}
                /\ top[1] = available_nms[c + 1]
                /\ Len(top) = 2 => top[2] \in Range(available_nms) \ {top[1]}
                /\ result'.ret.primary \in Range(top)
                /\ Len(top) = 1 => result'.ret.primary = available_nms[c + 1]
                /\ round_robin_indices' =
                        [round_robin_indices EXCEPT ![dom] = (c + 1) % n]
      ]_vars

\* the weighted candidate is the round-robin candidate b (cursor 1): one final
\* candidate, returned
C24_Witness ==
    /\ result.op = "select"
    /\ result.arg.request.priority = "high"
    /\ result.arg.available_nms = <<"a", "b">>
    /\ result.ret.top_candidates = <<"b">>
    /\ result.ret.primary = "b"
    /\ round_robin_indices[MEDICAL] = 0

---------------------------------------------------------------------------
(* Properties of the cursors and of the workers a decision names, under Spec *)

\* the workers a returned decision names
NamedNow == {result.ret.primary} \cup Range(result.ret.validation)

\* C25: the cursor of a domain changes only in a route call for that domain that
\* takes no preferred worker, has a priority other than urgent and finds an
\* eligible worker, and then becomes (c + 1) mod n once; every other call
\* (urgent, preferred and no-candidate routes, routes for other domains,
\* completeRequest, health checks, statistics, re-registration) leaves it.
C25_CursorFrame ==
    [][ \A d \in DOMAIN round_robin_indices :
            LET n == Len(EligibleNow(nm_registry', domain_pools, d))
                advances == IF RouteStep
                            THEN /\ NoPreferredStep
                                 /\ result'.arg.domain = d
                                 /\ result'.arg.priority # "urgent"
                                 /\ result'.ret.primary # None
                            ELSE FALSE
            IN  round_robin_indices'[d] =
                    IF advances
                    THEN (CursorAt(round_robin_indices, d, n) + 1) % n
                    ELSE round_robin_indices[d]
      ]_vars

\* an urgent route over two eligible workers returned and the cursor is still 1
C25_Witness ==
    /\ RouteReturned
    /\ result.arg.priority = "urgent"
    /\ result.arg.preferred_nm_id = None
    /\ result.ret.total_available = <<2>>
    /\ result.ret.validation # <<>>
    /\ round_robin_indices[result.arg.domain] = 1

\* C26: every worker named in a routing decision is Healthy or Degraded in the
\* state in which route returns.
C26_NamedAreEligible ==
    (RouteReturned /\ result.ret.primary # None) =>
        \A i \in NamedNow : nm_registry[i].status \in {HEALTHY, DEGRADED}

\* C27: the primary and every validator of a routing decision are registered
\* workers whose record's domain is the request's domain.
C27_NamedInRequestDomain ==
    (RouteReturned /\ result.ret.primary # None) =>
        \A i \in NamedNow :
            /\ i \in DOMAIN nm_registry
            /\ nm_registry[i].domain = result.arg.domain

\* C30: every domain with a pool has a stored cursor c with
\* 0 <= c < length of the pool.
C30_CursorInPool ==
    \A d \in DOMAIN domain_pools :
        /\ d \in DOMAIN round_robin_indices
        /\ round_robin_indices[d] >= 0
        /\ round_robin_indices[d] < Len(domain_pools[d])

\* a round-robin route over one eligible worker of a pool of two: the cursor,
\* which pointed at the second position, was reset and is 0 again
C30_Witness ==
    /\ RouteReturned
    /\ result.ret.routing_method = "round_robin_normal"
    /\ result.ret.total_available = <<1>>
    /\ result.ret.primary = "b"
    /\ domain_pools[result.arg.domain] = <<"a", "b">>
    /\ round_robin_indices[result.arg.domain] = 0

---------------------------------------------------------------------------
(* A further property of the round-robin scenario, under SpecRR *)

\* C29: while the eligible list of the domain stays one list of n workers and
\* only normal non-preferred requests are routed for it, any n consecutive
\* requests select n distinct primaries, each eligible worker once, from
\* whatever cursor value the window starts at.
C29_NoStarvation ==
    \A k \in 1..Len(rr_log) :
        LET eligible == rr_log[k].available
            n == Len(eligible)
        IN  (/\ n >= 1
             /\ k + n - 1 <= Len(rr_log)
             /\ \A j \in k..(k + n - 1) : rr_log[j].available = eligible) =>
                /\ {rr_log[j].primary : j \in k..(k + n - 1)} = Range(eligible)
                /\ \A i, j \in k..(k + n - 1) :
                        rr_log[i].primary = rr_log[j].primary => i = j

\* two calls with [a, b, c] eligible leave the cursor at 2; then c is found
\* Unavailable and the next two calls, over [a, b], start from an out-of-range
\* cursor and select a and b
C29_Witness ==
    /\ Len(rr_log) = 4
    /\ rr_log[1].available = ABC
    /\ rr_log[2].available = ABC
    /\ rr_log[3].available = <<"a", "b">>
    /\ rr_log[4].available = <<"a", "b">>
    /\ rr_log[3].primary = "a"
    /\ rr_log[4].primary = "b"

---------------------------------------------------------------------------
(* Consistency of the registry, the pools, the statistics and the loads, under Spec *)

\* C32: every id in any domain pool is a key of the worker registry, and every
\* registered worker's id is a member of the pool of the domain named in its
\* current record.
C32_RegistryPoolsConsistent ==
    /\ \A d \in DOMAIN domain_pools :
            \A k \in 1..Len(domain_pools[d]) : domain_pools[d][k] \in DOMAIN nm_registry
    /\ \A i \in DOMAIN nm_registry :
            /\ nm_registry[i].domain \in DOMAIN domain_pools
            /\ i \in Range(domain_pools[nm_registry[i].domain])

\* a worker registered under one domain was registered again under another: it is
\* in both pools and its record names the second
C32_Witness ==
    /\ result.op = "register"
    /\ result.arg.domain = CARDIOLOGY
    /\ MEDICAL \in DOMAIN domain_pools
    /\ result.arg.id \in Range(domain_pools[MEDICAL])
    /\ result.arg.id \in Range(domain_pools[CARDIOLOGY])
    /\ nm_registry[result.arg.id].domain = CARDIOLOGY

\* sum(stats["domains"][d]["total"] for d in stats["domains"])
RECURSIVE SumTotals(_, _)
SumTotals(domains, ds) ==
    IF ds = {} THEN 0
    ELSE LET d == CHOOSE x \in ds : TRUE
         IN  domains[d].total + SumTotals(domains, ds \ {d})

\* C33: the output of routingStats satisfies 0 <= overall_health <= 1,
\* healthy + degraded + unavailable = total for every domain, and the sum of the
\* per-domain totals equals total_nms.
C33_StatsConsistent ==
    result.op = "stats" =>
        LET stats == result.ret IN
        /\ 0 <= stats.overall_health[1]
        /\ stats.overall_health[1] <= stats.overall_health[2]
        /\ \A d \in DOMAIN stats.domains :
                stats.domains[d].healthy + stats.domains[d].degraded
                    + stats.domains[d].unavailable = stats.domains[d].total
        /\ SumTotals(stats.domains, DOMAIN stats.domains) = stats.total_nms

\* C34: the current_load of a registered worker changes only by +1 inside route
\* and by -1, floored at 0, inside complete_request; no other operation, register
\* of an already registered id included, changes it.
C34_LoadFrame ==
    [][ \A i \in DOMAIN nm_registry :
            LET load == nm_registry[i].current_load
                load_after == nm_registry'[i].current_load
            IN  load_after # load =>
                    \/ RouteStep /\ load_after = load + 1
                    \/ /\ result'.op = "complete"
                       /\ result'.arg = i
                       /\ load_after = Max(0, load - 1)
      ]_vars

---------------------------------------------------------------------------
(* Recovery of an Unavailable worker: a caller keeps routing normal requests for
   one domain and completing them while time passes without end *)

InitLive == InitAfter(SetupConc)

LiveIds == SetupIds(SetupConc)

\* the clock moves between calls, without a last instant. The router reads the
\* clock only in "time.time() - nm.last_health_check > health_check_interval",
\* so once now has reached MaxTime the passage of dt is kept as a shift of every
\* last_health_check by dt, floored at 0: a difference that the floor shortens
\* is still now - 0 > HealthCheckInterval.
TickLive(dt) ==
    /\ result.op = "none"
    /\ IF now + dt <= MaxTime
       THEN /\ now' = now + dt
            /\ UNCHANGED nm_registry
       ELSE /\ now' = now
            /\ nm_registry' = [i \in DOMAIN nm_registry |->
                    [nm_registry[i] EXCEPT !.last_health_check = Max(0, @ - dt)]]
    /\ UNCHANGED <<domain_pools, round_robin_indices, result, owed, rr_log, th>>

\* the route call returns; the caller keeps which workers were eligible when it
\* returned, and the primary, until the next route call returns
ReturnLive ==
    /\ result.op # "none"
    /\ result' = NoCall
    /\ rr_log' = IF result.op = "route"
                 THEN <<[available |-> EligibleNow(nm_registry, domain_pools, result.arg.domain),
                         primary |-> result.ret.primary]>>
                 ELSE rr_log
    /\ UNCHANGED <<nm_registry, domain_pools, round_robin_indices, now, owed, th>>

\* a route call in which worker i is due for a recomputation and its probe
\* (line 73) succeeds
ProbeUp(i) ==
    /\ NeedsCheck(nm_registry[i], now)
    /\ \E request \in HealthRequests : Route(request)
    /\ IsEligible(nm_registry'[i])

NextLive ==
    \/ \E request \in HealthRequests : Route(request)
    \/ \E nm_id \in LiveIds : Complete(nm_id)
    \/ ReturnLive
    \/ \E dt \in {HealthCheckInterval, HealthCheckInterval + 1} : TickLive(dt)

\* calls return, time keeps advancing, the caller completes what it was routed,
\* and for each worker the probe succeeds again and again when it is made. The
\* clock and the completions are disabled while a call is in progress, so their
\* fairness is strong: a caller that starts calls back to back does not stop time.
SpecLive ==
    /\ InitLive
    /\ [][NextLive]_vars
    /\ WF_vars(ReturnLive)
    /\ SF_vars(TickLive(HealthCheckInterval + 1))
    /\ \A i \in LiveIds : SF_vars(Complete(i))
    /\ \A i \in LiveIds : SF_vars(ProbeUp(i))

\* C31: a worker marked Unavailable is not excluded forever: while requests for
\* its domain keep being routed without a preferred worker, time keeps advancing
\* and its probe succeeds at some recomputation made more than
\* HealthCheckInterval after its last check, it eventually is Healthy or Degraded
\* again and among the eligible workers of a route call.
C31_UnavailableRecovers ==
    \A i \in LiveIds :
        (nm_registry[i].status = UNAVAILABLE) ~>
            (/\ RouteReturned
             /\ i \in Range(EligibleNow(nm_registry, domain_pools, MEDICAL)))

\* the route call before this one returned without worker a among the eligible
\* workers; this one recomputed a, more than HealthCheckInterval after its
\* failed check, and a is eligible again
C31_Witness ==
    /\ RouteReturned
    /\ rr_log # <<>>
    /\ "a" \notin Range(rr_log[1].available)
    /\ nm_registry["a"].last_health_check = now
    /\ "a" \in Range(EligibleNow(nm_registry, domain_pools, MEDICAL))

====
